---- MODULE Spec2Model ----
(***************************************************************************)
(* The view layer of blogicum (blog/views.py): which posts each listing    *)
(* and the detail page show to which viewer, and which requests may create,*)
(* change or delete posts and comments.                                    *)
(*                                                                         *)
(* The store (posts, comments, categories) is the database the views read  *)
(* and write.  Every handler is an operator from the acting user and the   *)
(* URL/form inputs to a Result: the HTTP response and the store after the  *)
(* request.  A request is the submission the view exists for: a POST whose *)
(* form validates (forms.py and its field validation are outside views.py).*)
(* The listings are modelled as the set of rows of the queryset; order_by, *)
(* annotate and paginate_by do not change which rows it holds.             *)
(* EditProfileView writes only the caller's own User row, which no listing *)
(* and no permission test reads; it is left out.                           *)
(***************************************************************************)
EXTENDS Integers, FiniteSets, TLC

VARIABLES posts, comments, nextPostId, nextCommentId, categories, now

vars == <<posts, comments, nextPostId, nextCommentId, categories, now>>

(* ------------------------------ bounds -------------------------------- *)
MaxTime == 1

(* ----------------------------- universe ------------------------------- *)
(* Two registered users and the anonymous user; two categories, whose slug *)
(* is their key, and a slug no category has; the ids the database hands    *)
(* out to posts and comments, in order and never a second time.            *)
Users == {"alice", "bob"}
Anonymous == "AnonymousUser"
Actors == Users \cup {Anonymous}
Usernames == Users \cup {"nobody"}
Categories == {"travel", "food"}
Slugs == Categories \cup {"missing"}
Times == 0..MaxTime
PostIds == {1, 2}
CommentIds == {1}
Texts == {"a", "b"}

PostForm == [category : Categories, is_published : BOOLEAN, pub_date : Times]
CommentForm == [text : Texts]

(* ----------------------------- responses ------------------------------ *)
Http404 == [kind |-> "NotFound", post_id |-> 0, username |-> ""]
PermissionDenied == [kind |-> "Forbidden", post_id |-> 0, username |-> ""]
RedirectLogin == [kind |-> "RedirectLogin", post_id |-> 0, username |-> ""]
RedirectIndex == [kind |-> "RedirectIndex", post_id |-> 0, username |-> ""]
RedirectDetail(post_id) ==
    [kind |-> "RedirectDetail", post_id |-> post_id, username |-> ""]
RedirectProfile(username) ==
    [kind |-> "RedirectProfile", post_id |-> 0, username |-> username]
Page(post_id) == [kind |-> "Page", post_id |-> post_id, username |-> ""]

(* ------------------------------ helpers ------------------------------- *)
Remove(f, k) == [x \in (DOMAIN f) \ {k} |-> f[x]]
Put(f, k, v) == [x \in (DOMAIN f) \cup {k} |-> IF x = k THEN v ELSE f[x]]

is_authenticated(user) == user \in Users

Result(resp, ps, cs, np, nc) ==
    [response |-> resp, posts |-> ps, comments |-> cs,
     nextPostId |-> np, nextCommentId |-> nc]

Unchanged(resp) == Result(resp, posts, comments, nextPostId, nextCommentId)

(* Comment.post is an owning reference: the comments of a deleted post go  *)
(* with it.                                                                *)
CascadeDelete(cs, post_id) ==
    [c \in {x \in DOMAIN cs : cs[x].post # post_id} |-> cs[c]]

(* ------------------------------ listings ------------------------------ *)
(* Mutant: the category__is_published filter is forgotten.                 *)
PostListView_get_queryset_NoCategoryCheck(viewer) ==
    {id \in DOMAIN posts :
        /\ posts[id].is_published
        /\ posts[id].pub_date <= now}

PostListView_get_queryset(viewer) ==
    {id \in DOMAIN posts :
        /\ posts[id].is_published
        /\ posts[id].pub_date <= now
        /\ categories[posts[id].category]}

ProfileView_get_queryset(viewer, username) ==
    IF username \notin Users THEN Http404
    ELSE [kind |-> "List",
          rows |-> {id \in DOMAIN posts : posts[id].author = username}]

(* Mutant: the category=self.category filter is forgotten.                 *)
CategoryPostsView_get_queryset_AnyCategory(viewer, category_slug) ==
    IF ~(category_slug \in Categories /\ categories[category_slug])
    THEN Http404
    ELSE [kind |-> "List",
          rows |-> {id \in {i \in DOMAIN posts :
                               /\ posts[i].is_published
                               /\ posts[i].pub_date <= now} :
                       categories[posts[id].category]}]

CategoryPostsView_get_queryset(viewer, category_slug) ==
    IF ~(category_slug \in Categories /\ categories[category_slug])
    THEN Http404
    ELSE [kind |-> "List",
          rows |-> {id \in {i \in DOMAIN posts :
                               /\ posts[i].is_published
                               /\ posts[i].pub_date <= now
                               /\ posts[i].category = category_slug} :
                       categories[posts[id].category]}]

(* Mutant: the author does not get to see an own hidden post.              *)
PostDetailView_get_object_PublicOnly(user, post_id) ==
    IF post_id \notin DOMAIN posts THEN Http404
    ELSE IF /\ posts[post_id].is_published
            /\ categories[posts[post_id].category]
            /\ posts[post_id].pub_date <= now
         THEN Page(post_id)
         ELSE Http404

PostDetailView_get_object(user, post_id) ==
    IF post_id \notin DOMAIN posts THEN Http404
    ELSE IF \/ posts[post_id].author = user
            \/ /\ posts[post_id].is_published
               /\ categories[posts[post_id].category]
               /\ posts[post_id].pub_date <= now
         THEN Page(post_id)
         ELSE Http404

(* ------------------------------ handlers ------------------------------ *)
PostCreateView(user, form) ==
    IF ~is_authenticated(user) THEN Unchanged(RedirectLogin)
    ELSE Result(RedirectProfile(user),
                Put(posts, nextPostId,
                    [author |-> user, category |-> form.category,
                     is_published |-> form.is_published,
                     pub_date |-> form.pub_date]),
                comments, nextPostId + 1, nextCommentId)

(* Mutant: any signed-in user passes the test.                             *)
PostUpdateView_test_func_AnyUser(user, pk) ==
    is_authenticated(user)

PostUpdateView_test_func(user, pk) ==
    is_authenticated(user) /\ posts[pk].author = user

PostUpdateView(user, pk, form) ==
    IF pk \notin DOMAIN posts THEN Unchanged(Http404)
    ELSE IF ~PostUpdateView_test_func(user, pk)
         THEN Unchanged(RedirectDetail(pk))
         ELSE Result(RedirectDetail(pk),
                     Put(posts, pk,
                         [author |-> posts[pk].author,
                          category |-> form.category,
                          is_published |-> form.is_published,
                          pub_date |-> form.pub_date]),
                     comments, nextPostId, nextCommentId)

(* Mutant: the queryset is not narrowed to the actor's own posts.          *)
PostDeleteView_get_queryset_AllPosts(user) ==
    DOMAIN posts

PostDeleteView_get_queryset(user) ==
    {id \in DOMAIN posts : posts[id].author = user}

PostDeleteView(user, post_id) ==
    IF ~is_authenticated(user) THEN Unchanged(RedirectLogin)
    ELSE IF post_id \notin PostDeleteView_get_queryset(user)
         THEN Unchanged(Http404)
         ELSE Result(RedirectIndex, Remove(posts, post_id),
                     CascadeDelete(comments, post_id),
                     nextPostId, nextCommentId)

(* Mutant: the comment is credited to the author of the post.              *)
AddCommentView_AuthorOfPost(user, post_id, form) ==
    IF ~is_authenticated(user) THEN Unchanged(RedirectLogin)
    ELSE IF post_id \notin DOMAIN posts THEN Unchanged(Http404)
         ELSE Result(RedirectDetail(post_id), posts,
                     Put(comments, nextCommentId,
                         [post |-> post_id, author |-> posts[post_id].author,
                          text |-> form.text]),
                     nextPostId, nextCommentId + 1)

(* Mutant: the post is fetched as the detail view fetches it.              *)
AddCommentView_VisibleOnly(user, post_id, form) ==
    IF ~is_authenticated(user) THEN Unchanged(RedirectLogin)
    ELSE IF PostDetailView_get_object(user, post_id) = Http404
         THEN Unchanged(Http404)
         ELSE Result(RedirectDetail(post_id), posts,
                     Put(comments, nextCommentId,
                         [post |-> post_id, author |-> user,
                          text |-> form.text]),
                     nextPostId, nextCommentId + 1)

AddCommentView(user, post_id, form) ==
    IF ~is_authenticated(user) THEN Unchanged(RedirectLogin)
    ELSE IF post_id \notin DOMAIN posts THEN Unchanged(Http404)
         ELSE Result(RedirectDetail(post_id), posts,
                     Put(comments, nextCommentId,
                         [post |-> post_id, author |-> user,
                          text |-> form.text]),
                     nextPostId, nextCommentId + 1)

EditCommentView(user, comment_id, form) ==
    IF comment_id \notin DOMAIN comments THEN Unchanged(Http404)
    ELSE IF comments[comment_id].author # user
         THEN Unchanged(PermissionDenied)
         ELSE IF ~is_authenticated(user) THEN Unchanged(RedirectLogin)
              ELSE Result(RedirectIndex, posts,
                          Put(comments, comment_id,
                              [post |-> comments[comment_id].post,
                               author |-> comments[comment_id].author,
                               text |-> form.text]),
                          nextPostId, nextCommentId)

(* Mutant: a foreign comment is hidden from the actor, as PostDeleteView   *)
(* hides a foreign post, instead of being refused.                         *)
DeleteCommentView_NotFoundOnDenial(user, post_id, comment_id) ==
    IF ~is_authenticated(user) THEN Unchanged(RedirectLogin)
    ELSE IF \/ comment_id \notin DOMAIN comments
            \/ comments[comment_id].author # user
         THEN Unchanged(Http404)
         ELSE Result(RedirectDetail(post_id), posts,
                     Remove(comments, comment_id),
                     nextPostId, nextCommentId)

DeleteCommentView(user, post_id, comment_id) ==
    IF comment_id \notin DOMAIN comments THEN Unchanged(Http404)
    ELSE IF comments[comment_id].author # user
         THEN Unchanged(PermissionDenied)
         ELSE IF ~is_authenticated(user) THEN Unchanged(RedirectLogin)
              ELSE Result(RedirectDetail(post_id), posts,
                          Remove(comments, comment_id),
                          nextPostId, nextCommentId)

(* ------------------------------ actions ------------------------------- *)
(* The database after a request is the store of the handler's Result.      *)
Apply(r) ==
    /\ posts' = r.posts
    /\ comments' = r.comments
    /\ nextPostId' = r.nextPostId
    /\ nextCommentId' = r.nextCommentId

CreatePost ==
    \E user \in Actors, form \in PostForm :
        /\ is_authenticated(user) => nextPostId \in PostIds
        /\ Apply(PostCreateView(user, form))
        /\ UNCHANGED <<categories, now>>

EditPost ==
    \E user \in Actors, pk \in PostIds, form \in PostForm :
        /\ Apply(PostUpdateView(user, pk, form))
        /\ UNCHANGED <<categories, now>>

DeletePost ==
    \E user \in Actors, post_id \in PostIds :
        /\ Apply(PostDeleteView(user, post_id))
        /\ UNCHANGED <<categories, now>>

AddComment ==
    \E user \in Actors, post_id \in PostIds, form \in CommentForm :
        /\ (is_authenticated(user) /\ post_id \in DOMAIN posts)
              => nextCommentId \in CommentIds
        /\ Apply(AddCommentView(user, post_id, form))
        /\ UNCHANGED <<categories, now>>

EditComment ==
    \E user \in Actors, comment_id \in CommentIds, form \in CommentForm :
        /\ Apply(EditCommentView(user, comment_id, form))
        /\ UNCHANGED <<categories, now>>

DeleteComment ==
    \E user \in Actors, post_id \in PostIds, comment_id \in CommentIds :
        /\ Apply(DeleteCommentView(user, post_id, comment_id))
        /\ UNCHANGED <<categories, now>>

(* timezone.now() moves on between requests.                               *)
Tick ==
    /\ now < MaxTime
    /\ now' = now + 1
    /\ UNCHANGED <<posts, comments, nextPostId, nextCommentId, categories>>

Init ==
    /\ posts = <<>>
    /\ comments = <<>>
    /\ nextPostId = 1
    /\ nextCommentId = 1
    /\ categories \in [Categories -> BOOLEAN]
    /\ now = 0

Next ==
    \/ CreatePost
    \/ EditPost
    \/ DeletePost
    \/ AddComment
    \/ EditComment
    \/ DeleteComment
    \/ Tick

Spec == Init /\ [][Next]_vars

(* ============================== claims ================================ *)

(* C1: for every existing post P and every viewer V, signed in or          *)
(* anonymous, the detail request returns the post iff V is P's author or P *)
(* is published, in a published category and not dated in the future; in   *)
(* every other case it returns NotFound.  No post has the anonymous user   *)
(* as its author.                                                          *)
C1_DetailVisibility ==
    \A p \in DOMAIN posts :
        /\ posts[p].author # Anonymous
        /\ \A V \in Actors :
              PostDetailView_get_object(V, p) =
                  IF \/ V = posts[p].author
                     \/ /\ posts[p].is_published
                        /\ categories[posts[p].category]
                        /\ posts[p].pub_date <= now
                  THEN Page(p)
                  ELSE Http404

(* C1 witness: a post that is not publicly visible is served to its author *)
(* and answered NotFound to the other user and to the anonymous viewer.    *)
C1_Witness ==
    \E p \in DOMAIN posts :
        /\ ~(/\ posts[p].is_published
              /\ categories[posts[p].category]
              /\ posts[p].pub_date <= now)
        /\ PostDetailView_get_object(posts[p].author, p) = Page(p)
        /\ PostDetailView_get_object(Anonymous, p) = Http404
        /\ \E V \in Users \ {posts[p].author} :
              PostDetailView_get_object(V, p) = Http404

(* C5: at every time and in every state of the store the global feed holds *)
(* exactly the posts that are published, not dated in the future and in a  *)
(* published category, whoever the viewer is, the author included.         *)
C5_GlobalFeedExact ==
    \A viewer \in Actors :
        /\ PostListView_get_queryset(viewer) \subseteq DOMAIN posts
        /\ \A p \in DOMAIN posts :
              p \in PostListView_get_queryset(viewer) <=>
                  /\ posts[p].is_published = TRUE
                  /\ posts[p].pub_date <= now
                  /\ categories[posts[p].category] = TRUE

(* C5 witness: the feed shows one post and leaves out another, which its   *)
(* own author does not get listed either.                                  *)
C5_Witness ==
    \E p, q \in DOMAIN posts :
        /\ p \in PostListView_get_queryset(Anonymous)
        /\ q \notin PostListView_get_queryset(posts[q].author)
        /\ posts[q].is_published
        /\ posts[q].pub_date <= now

(* C6: in the global feed, the category feed and the profile feed alike, a *)
(* post is listed for a viewer who is not its author only if it is         *)
(* published, not dated in the future and in a published category.         *)
C6_ListingsHideFromOthers ==
    \A viewer \in Actors :
        LET Hidden(p) == /\ viewer # posts[p].author
                         /\ ~(/\ posts[p].is_published
                               /\ posts[p].pub_date <= now
                               /\ categories[posts[p].category])
        IN  /\ \A p \in PostListView_get_queryset(viewer) : ~Hidden(p)
            /\ \A slug \in Slugs :
                  LET r == CategoryPostsView_get_queryset(viewer, slug)
                  IN  r.kind = "List" => \A p \in r.rows : ~Hidden(p)
            /\ \A username \in Usernames :
                  LET r == ProfileView_get_queryset(viewer, username)
                  IN  r.kind = "List" => \A p \in r.rows : ~Hidden(p)

(* C7: a category feed request for a slug with no category, or with an     *)
(* unpublished one, is NotFound for every viewer; for a published category *)
(* it lists exactly the published, not future-dated posts of that category *)
(* (the category-publication test written once here, twice in the query).  *)
C7_CategoryFeedExact ==
    \A viewer \in Actors, slug \in Slugs :
        IF slug \notin Categories \/ ~categories[slug]
        THEN CategoryPostsView_get_queryset(viewer, slug) = Http404
        ELSE CategoryPostsView_get_queryset(viewer, slug) =
                 [kind |-> "List",
                  rows |-> {p \in DOMAIN posts :
                               /\ posts[p].category = slug
                               /\ posts[p].is_published
                               /\ posts[p].pub_date <= now}]

(* C7 witness: two published categories, each with a listed post, so each  *)
(* feed has a post of the other category to leave out, while the slug of   *)
(* no category is NotFound.                                                *)
C7_Witness ==
    /\ \E slug \in Slugs \ Categories :
          CategoryPostsView_get_queryset(Anonymous, slug) = Http404
    /\ \E c, d \in Categories :
          /\ c # d
          /\ categories[c] /\ categories[d]
          /\ \E p, q \in DOMAIN posts :
                /\ posts[p].category = c /\ posts[q].category = d
                /\ p \in CategoryPostsView_get_queryset(Anonymous, c).rows
                /\ q \in CategoryPostsView_get_queryset(Anonymous, d).rows
                /\ q \notin CategoryPostsView_get_queryset(Anonymous, c).rows

C3_DenialOutcomes ==
    /\ \A pk \in DOMAIN posts, user \in Actors, form \in PostForm :
          user # posts[pk].author =>
              PostUpdateView(user, pk, form).response = RedirectDetail(pk)
    /\ \A c \in DOMAIN comments, user \in Users :
          user # comments[c].author =>
              /\ \A form \in CommentForm :
                    EditCommentView(user, c, form).response = PermissionDenied
              /\ \A post_id \in PostIds :
                    DeleteCommentView(user, post_id, c).response
                        = PermissionDenied

(* C3 witness: one signed-in user is the author of neither an existing     *)
(* post nor an existing comment: the post edit is redirected, the comment  *)
(* delete refused.                                                         *)
C3_Witness ==
    \E pk \in DOMAIN posts, c \in DOMAIN comments, user \in Users :
        /\ user # posts[pk].author
        /\ user # comments[c].author
        /\ \E form \in PostForm :
              PostUpdateView(user, pk, form).response.kind = "RedirectDetail"
        /\ DeleteCommentView(user, pk, c).response.kind = "Forbidden"

(* C4: every handler that requires a signed-in actor (create post, delete  *)
(* post, add comment, edit comment, delete comment) answers the anonymous  *)
(* caller with a redirect to the login page and changes nothing; for the   *)
(* comment handlers this is stated of every existing comment.              *)
C4_AnonymousRedirectedToLogin ==
    /\ \A form \in PostForm :
          PostCreateView(Anonymous, form) = Unchanged(RedirectLogin)
    /\ \A post_id \in PostIds :
          /\ PostDeleteView(Anonymous, post_id) = Unchanged(RedirectLogin)
          /\ \A form \in CommentForm :
                AddCommentView(Anonymous, post_id, form)
                    = Unchanged(RedirectLogin)
    /\ \A c \in DOMAIN comments :
          /\ \A form \in CommentForm :
                EditCommentView(Anonymous, c, form) = Unchanged(RedirectLogin)
          /\ \A post_id \in PostIds :
                DeleteCommentView(Anonymous, post_id, c)
                    = Unchanged(RedirectLogin)

(* C8: a create-post request by a signed-in actor adds one post, authored  *)
(* by that actor, and one by the anonymous user adds nothing; an           *)
(* add-comment request by a signed-in actor on an existing post adds one   *)
(* comment, authored by that actor and attached to the post named, one     *)
(* naming a post that does not exist adds nothing and is NotFound, and one *)
(* by the anonymous user adds nothing.  Every stored post and comment has  *)
(* a signed-in user as author.                                             *)
C8_CreatedByActor ==
    /\ nextPostId \notin DOMAIN posts
    /\ nextCommentId \notin DOMAIN comments
    /\ \A p \in DOMAIN posts : posts[p].author \in Users
    /\ \A c \in DOMAIN comments : comments[c].author \in Users
    /\ \A user \in Actors, form \in PostForm :
          LET r == PostCreateView(user, form)
          IN  /\ r.comments = comments
              /\ IF is_authenticated(user)
                 THEN /\ DOMAIN r.posts = DOMAIN posts \cup {nextPostId}
                      /\ \A p \in DOMAIN posts : r.posts[p] = posts[p]
                      /\ r.posts[nextPostId].author = user
                 ELSE r.posts = posts
    /\ \A user \in Actors, post_id \in PostIds, form \in CommentForm :
          LET r == AddCommentView(user, post_id, form)
          IN  /\ r.posts = posts
              /\ IF ~is_authenticated(user)
                 THEN r.comments = comments
                 ELSE IF post_id \notin DOMAIN posts
                      THEN r.comments = comments /\ r.response = Http404
                      ELSE /\ DOMAIN r.comments
                                 = DOMAIN comments \cup {nextCommentId}
                           /\ \A c \in DOMAIN comments :
                                 r.comments[c] = comments[c]
                           /\ r.comments[nextCommentId].author = user
                           /\ r.comments[nextCommentId].post = post_id

(* C8 witness: the store holds a comment that a user added to another      *)
(* user's post, while a post id with no post is there to be named.         *)
C8_Witness ==
    /\ \E c \in DOMAIN comments :
          /\ comments[c].post \in DOMAIN posts
          /\ comments[c].author # posts[comments[c].post].author
    /\ \E post_id \in PostIds : post_id \notin DOMAIN posts

(* C9: a delete-post request by a signed-in user who is not the post's     *)
(* author is NotFound and leaves the store as it was; one by the author    *)
(* removes that post and no other post.                                    *)
C9_DeletePost ==
    \A p \in DOMAIN posts, user \in Users :
        LET r == PostDeleteView(user, p)
        IN  IF user # posts[p].author
            THEN r = Unchanged(Http404)
            ELSE /\ r.response = RedirectIndex
                 /\ DOMAIN r.posts = (DOMAIN posts) \ {p}
                 /\ \A q \in DOMAIN r.posts : r.posts[q] = posts[q]

(* C9 witness: the first post has been deleted and the second is still     *)
(* stored; the user who is not its author gets NotFound for it.            *)
C9_Witness ==
    /\ DOMAIN posts = {2}
    /\ \E user \in Users :
          /\ user # posts[2].author
          /\ PostDeleteView(user, 2).response = Http404

(* C10: an add-comment request creates a comment only on a post that the   *)
(* detail view would show to the acting user.                              *)
C10_CommentOnlyOnVisiblePost ==
    \A user \in Users, post_id \in PostIds, form \in CommentForm :
        AddCommentView(user, post_id, form).comments # comments =>
            PostDetailView_get_object(user, post_id) = Page(post_id)

(* C10 amended: an add-comment request by a signed-in actor creates the    *)
(* comment on every existing post, hidden from the actor or not, and       *)
(* redirects to that post's detail page.                                   *)
C10_CommentOnAnyExistingPost ==
    \A user \in Users, post_id \in DOMAIN posts, form \in CommentForm :
        LET r == AddCommentView(user, post_id, form)
        IN  /\ r.response = RedirectDetail(post_id)
            /\ nextCommentId \in DOMAIN r.comments
            /\ r.comments[nextCommentId]
                   = [post |-> post_id, author |-> user, text |-> form.text]

(* C10 witness: no category is published, so no post was ever visible to   *)
(* anyone but its author, and the store holds a comment by another user.   *)
C10_Witness ==
    /\ \A cat \in Categories : ~categories[cat]
    /\ \E c \in DOMAIN comments :
          /\ comments[c].post \in DOMAIN posts
          /\ comments[c].author # posts[comments[c].post].author
          /\ PostDetailView_get_object(comments[c].author, comments[c].post)
                 = Http404
====
